---- MODULE Spec2Model ----
(***************************************************************************)
(* The Planets API: the FastAPI application (Backend/app.py) and the Flask *)
(* application (Backend/flask_app.py).  Both expose login, a bearer-token  *)
(* guard and create / update / delete of planets.  A behaviour runs one of *)
(* the two applications (variable framework); every action is one request  *)
(* handled from its first line to its response.                            *)
(*                                                                         *)
(* Optional values (Python None) are sequences of length at most one:      *)
(* <<>> is None and <<v>> is the value v.                                  *)
(* The clock counts whole minutes: both JWT libraries compare integer      *)
(* timestamps, and every ttl of the program is a whole number of minutes.  *)
(***************************************************************************)
EXTENDS Integers, Sequences, FiniteSets, TLC

VARIABLES framework, now, users_db, planets_db, last, issued, req, hash_run, workers,
          stored_ids

vars == <<framework, now, users_db, planets_db, last, issued, req, hash_run, workers,
          stored_ids>>

(* Beside the two applications' state (users_db, planets_db), the clock    *)
(* and the latest request (last), a behaviour carries what the other       *)
(* specifications of this module observe; the requests of Spec leave all   *)
(* of it alone:                                                            *)
(*   issued    the tokens a client was given and has kept;                 *)
(*   req       a planet request with its arguments and the store before it;*)
(*   hash_run  one run of the password hasher;                             *)
(*   workers   the requests that are in progress at the same time;         *)
(*   stored_ids   the ids of all planets that were ever in the store.      *)
aside == <<issued, req, hash_run, workers, stored_ids>>

(* ------------------------------ bounds -------------------------------- *)
MaxClock == 2
MaxExp == 1
MaxTtl == 1
MaxPlanets == 2
MaxId == 2
MaxIssued == 2

(* --------------------------- configuration ---------------------------- *)
SECRET_KEY == "your-secret-key-change-in-production-make-it-long-and-random"
ALGORITHM == "HS256"
ACCESS_TOKEN_EXPIRE_MINUTES == 30
LOGIN_EXPIRE_MINUTES == 30

flask_SECRET_KEY == "your-secret-key-change-in-production"
flask_ALGORITHM == "HS256"
flask_ACCESS_TOKEN_EXPIRE_MINUTES == 30

Frameworks == {"fastapi", "flask"}

None == <<>>
Some(v) == <<v>>

(* ----------------------------- passwords ------------------------------ *)
(* A password is a sequence of characters.  bcrypt keys on the first 72    *)
(* bytes of the password and stores the salt beside the digest.            *)
BCRYPT_MAX_BYTES == 72

admin123 == <<"a", "d", "m", "i", "n", "1", "2", "3">>
test123 == <<"t", "e", "s", "t", "1", "2", "3">>
testpass123 == <<"t", "e", "s", "t", "p", "a", "s", "s", "1", "2", "3">>
wrongpassword == <<"w", "r", "o", "n", "g">>

bcrypt_key(password) ==
  IF Len(password) <= BCRYPT_MAX_BYTES THEN password
  ELSE SubSeq(password, 1, BCRYPT_MAX_BYTES)

get_password_hash(password, salt) ==
  [salt |-> salt, digest |-> <<salt, bcrypt_key(password)>>]

verify_password(plain_password, hashed_password) ==
  <<hashed_password.salt, bcrypt_key(plain_password)>> = hashed_password.digest

(* ------------------------------- tokens ------------------------------- *)
(* A token is the declared algorithm of its header, its payload (sub, exp) *)
(* and its signature.  The signature is an ideal MAC: the tuple of the key *)
(* and of everything that was signed, so that two signatures are equal     *)
(* exactly when key, algorithm and payload are.                            *)
hmac(key, alg, sub, exp) == [key |-> key, alg |-> alg, sub |-> sub, exp |-> exp]

NoSignature == hmac("", "", None, None)

jwt_encode(claims, key, algorithm) ==
  [alg |-> algorithm, sub |-> claims.sub, exp |-> claims.exp,
   sig |-> hmac(key, algorithm, claims.sub, claims.exp)]

(* A string that is not three base64url segments: "invalid_token".         *)
GarbageToken == [alg |-> "", sub |-> None, exp |-> None, sig |-> NoSignature]

DecodeError == [ok |-> FALSE, sub |-> None]

(* jwt.decode with the signature check switched off.                       *)
jose_decode_unverified(token, key, algorithm, t) ==
  IF token.alg = "" THEN DecodeError
  ELSE IF token.alg # algorithm THEN DecodeError
  ELSE IF token.exp # None /\ token.exp[1] < t THEN DecodeError
  ELSE [ok |-> TRUE, sub |-> token.sub]

(* jwt.decode taking a minute of leeway off the expiry instead of adding   *)
(* it.                                                                     *)
jose_decode_negative_leeway(token, key, algorithm, t) ==
  IF token.alg = "" THEN DecodeError
  ELSE IF token.alg # algorithm THEN DecodeError
  ELSE IF token.sig # hmac(key, token.alg, token.sub, token.exp) THEN DecodeError
  ELSE IF token.exp # None /\ token.exp[1] - 1 <= t THEN DecodeError
  ELSE [ok |-> TRUE, sub |-> token.sub]

(* python-jose, jwt.decode(token, key, algorithms=[algorithm]): the header *)
(* algorithm must be one of the allowed ones, the signature must verify    *)
(* under the key, and an exp claim, when present, must not be in the past  *)
(* (jose raises ExpiredSignatureError when exp < now).  A missing exp is   *)
(* not an error: no claim is required by default.                          *)
jose_decode(token, key, algorithm, t) ==
  IF token.alg = "" THEN DecodeError
  ELSE IF token.alg # algorithm THEN DecodeError
  ELSE IF token.sig # hmac(key, token.alg, token.sub, token.exp) THEN DecodeError
  ELSE IF token.exp # None /\ token.exp[1] < t THEN DecodeError
  ELSE [ok |-> TRUE, sub |-> token.sub]

(* PyJWT 2.x, jwt.decode(token, key, algorithms=[algorithm]): as above,    *)
(* but ExpiredSignatureError is raised when exp <= now.                    *)
pyjwt_decode(token, key, algorithm, t) ==
  IF token.alg = "" THEN DecodeError
  ELSE IF token.alg # algorithm THEN DecodeError
  ELSE IF token.sig # hmac(key, token.alg, token.sub, token.exp) THEN DecodeError
  ELSE IF token.exp # None /\ token.exp[1] <= t THEN DecodeError
  ELSE [ok |-> TRUE, sub |-> token.sub]

(* expires_delta is Optional[timedelta]; timedelta(0) is falsy in Python.  *)
create_access_token(sub, expires_delta, t) ==
  LET expire == IF expires_delta # None /\ expires_delta[1] # 0
                THEN t + expires_delta[1]
                ELSE t + ACCESS_TOKEN_EXPIRE_MINUTES
  IN jwt_encode([sub |-> sub, exp |-> Some(expire)], SECRET_KEY, ALGORITHM)

flask_create_access_token(sub, expires_delta, t) ==
  LET expire == IF expires_delta # None /\ expires_delta[1] # 0
                THEN t + expires_delta[1]
                ELSE t + flask_ACCESS_TOKEN_EXPIRE_MINUTES
  IN jwt_encode([sub |-> sub, exp |-> Some(expire)], flask_SECRET_KEY, flask_ALGORITHM)

(* verify_token returns the username, or None where the application raises *)
(* credentials_exception (FastAPI) or returns None (Flask).                *)
verify_token(token, t) ==
  LET payload == jose_decode(token, SECRET_KEY, ALGORITHM, t)
  IN IF ~payload.ok THEN None ELSE payload.sub

flask_verify_token(token, t) ==
  LET payload == pyjwt_decode(token, flask_SECRET_KEY, flask_ALGORITHM, t)
  IN IF ~payload.ok THEN None ELSE payload.sub

(* ------------------------------- users -------------------------------- *)
User(id, username, email, password, salt) ==
  [id |-> id, username |-> username, email |-> email,
   hashed_password |-> get_password_hash(password, salt), is_active |-> TRUE]

(* tests/conftest.py: the test_admin and test_user fixtures.               *)
test_users(salt) ==
  << User(1, "admin", "admin@example.com", admin123, salt),
     User(2, "testuser", "test@planets.com", testpass123, salt) >>

(* flask_app.py init_data: admin_user and test_user.                       *)
init_data(salt) ==
  << User(1, "admin", "admin@planets.com", admin123, salt),
     User(2, "testuser", "test@planets.com", test123, salt) >>

(* db.query(User).filter(User.username == username).first(), and Flask's   *)
(* next((u for u in users_db if u['username'] == username), None).         *)
find_user(db, username) ==
  LET hits == {i \in 1..Len(db) : db[i].username = username}
  IN IF hits = {} THEN None
     ELSE Some(db[CHOOSE i \in hits : \A j \in hits : i <= j])

(* authenticate_user without its password check.                           *)
authenticate_user_any_password(db, username, password) ==
  find_user(db, username)

authenticate_user(db, username, password) ==
  LET user == find_user(db, username)
  IN IF user = None THEN None
     ELSE IF ~verify_password(password, user[1].hashed_password) THEN None
     ELSE user

(* ------------------------------ the guard ----------------------------- *)
(* An Authorization header: present or absent, its first word (the         *)
(* scheme) and the words that follow it, separated by single spaces.       *)
NoHeader == [present |-> FALSE, scheme |-> "", words |-> <<>>]
Header(scheme, words) == [present |-> TRUE, scheme |-> scheme, words |-> words]

lower(s) == IF s \in {"Bearer", "BEARER", "bearer"} THEN "bearer" ELSE s

Outcome(guard, status, detail, verified, user) ==
  [guard |-> guard, status |-> status, detail |-> detail,
   verified |-> verified, user |-> user]

(* fastapi.security.HTTPBearer (auto_error): 403 unless the header is      *)
(* there with a scheme and credentials, 403 unless the scheme is bearer.   *)
(* The credentials are everything after the first space; more than one     *)
(* word is no JWT.                                                         *)
security(header) ==
  IF ~header.present \/ header.scheme = "" \/ header.words = <<>>
  THEN [ok |-> FALSE, detail |-> "Not authenticated", credentials |-> GarbageToken]
  ELSE IF lower(header.scheme) # "bearer"
  THEN [ok |-> FALSE, detail |-> "Invalid authentication credentials",
        credentials |-> GarbageToken]
  ELSE [ok |-> TRUE, detail |-> "",
        credentials |-> IF Len(header.words) = 1 THEN header.words[1] ELSE GarbageToken]

(* get_current_user without its "user is None" check.                      *)
get_current_user_unchecked(header, db, t) ==
  LET credentials == security(header)
      username == verify_token(credentials.credentials, t)
      user == find_user(db, username[1])
  IN IF ~credentials.ok
     THEN Outcome("REJECTED_MISSING", 403, credentials.detail, FALSE, None)
     ELSE IF username = None
     THEN Outcome("REJECTED_INVALID", 401, "Could not validate credentials", TRUE, None)
     ELSE Outcome("AUTHENTICATED", 200, "", TRUE, user)

(* get_current_user refusing a principal whose is_active is False.         *)
get_current_active_user(header, db, t) ==
  LET credentials == security(header)
      username == verify_token(credentials.credentials, t)
      user == find_user(db, username[1])
  IN IF ~credentials.ok
     THEN Outcome("REJECTED_MISSING", 403, credentials.detail, FALSE, None)
     ELSE IF username = None
     THEN Outcome("REJECTED_INVALID", 401, "Could not validate credentials", TRUE, None)
     ELSE IF user = None
     THEN Outcome("REJECTED_INVALID", 401, "Could not validate credentials", TRUE, None)
     ELSE IF ~user[1].is_active
     THEN Outcome("REJECTED_INVALID", 400, "Inactive user", TRUE, None)
     ELSE Outcome("AUTHENTICATED", 200, "", TRUE, user)

get_current_user(header, db, t) ==
  LET credentials == security(header)
      username == verify_token(credentials.credentials, t)
      user == find_user(db, username[1])
  IN IF ~credentials.ok
     THEN Outcome("REJECTED_MISSING", 403, credentials.detail, FALSE, None)
     ELSE IF username = None
     THEN Outcome("REJECTED_INVALID", 401, "Could not validate credentials", TRUE, None)
     ELSE IF user = None
     THEN Outcome("REJECTED_INVALID", 401, "Could not validate credentials", TRUE, None)
     ELSE Outcome("AUTHENTICATED", 200, "", TRUE, user)

(* flask_app.py token_required: auth_header.split(" ")[1].                 *)
token_required(header, db, t) ==
  LET split == <<header.scheme>> \o header.words
      token == split[2]
      username == flask_verify_token(token, t)
      user == find_user(db, username[1])
  IN IF ~header.present
     THEN Outcome("REJECTED_MISSING", 401, "Token is missing", FALSE, None)
     ELSE IF Len(split) < 2
     THEN Outcome("REJECTED_MISSING", 401, "Token is missing", FALSE, None)
     ELSE IF username = None \/ username = Some("")
     THEN Outcome("REJECTED_INVALID", 401, "Token is invalid", TRUE, None)
     ELSE IF user = None
     THEN Outcome("REJECTED_INVALID", 401, "User not found", TRUE, None)
     ELSE Outcome("AUTHENTICATED", 200, "", TRUE, user)

(* The guard of the running application.                                   *)
guard(header, db, t) ==
  IF framework = "fastapi" THEN get_current_user(header, db, t)
  ELSE token_required(header, db, t)

(* ------------------------------ planets ------------------------------- *)
Planet(id, name, description) == [id |-> id, name |-> name, description |-> description]

Max(S) == CHOOSE m \in S : \A x \in S : x <= m

ids_of(db) == {db[i].id : i \in 1..Len(db)}
names_of(db) == {db[i].name : i \in 1..Len(db)}

(* The id of a new row.  Planet.id is an INTEGER PRIMARY KEY of the        *)
(* default SQLite database, which gives a new row the largest id in the    *)
(* table plus one; Flask computes max(ids, default=0) + 1 itself.          *)
new_id(db) == IF db = <<>> THEN 1 ELSE Max(ids_of(db)) + 1

first_with_id(db, planet_id) ==
  LET hits == {i \in 1..Len(db) : db[i].id = planet_id}
  IN IF hits = {} THEN 0 ELSE CHOOSE i \in hits : \A j \in hits : i <= j

Result(db, status, detail) == [planets |-> db, status |-> status, detail |-> detail]

(* A PUT body: each field is <<>> (not sent) or <<v>> (sent with value v); *)
(* description may be sent as null, which is <<None>>.  PlanetUpdate has   *)
(* no id field and pydantic drops a field the schema does not have;        *)
(* exclude_unset keeps a field that was sent as null.                      *)
EmptyBody == [name |-> <<>>, description |-> <<>>, id |-> <<>>]

patch(planet, body) ==
  [planet EXCEPT !.name = IF body.name = <<>> THEN @ ELSE body.name[1],
                 !.description = IF body.description = <<>> THEN @
                                 ELSE body.description[1]]

(* flask_app.py update_planet: every key of the JSON body that is a key of *)
(* the stored planet and whose value is not None is written, id included.  *)
flask_patch(planet, body) ==
  [planet EXCEPT !.name = IF body.name = <<>> THEN @ ELSE body.name[1],
                 !.description = IF body.description = <<>> \/ body.description[1] = None
                                 THEN @ ELSE body.description[1],
                 !.id = IF body.id = <<>> THEN @ ELSE body.id[1]]

(* GET /planets and GET /planets/{planet_id}, the same in both             *)
(* applications; neither is behind the guard.                              *)
get_planets(db) == db

get_planet(db, planet_id) ==
  IF first_with_id(db, planet_id) = 0 THEN Result(db, 404, "Planet not found")
  ELSE Result(db, 200, "")

(* create_planet without its look-up of the name.                          *)
create_planet_handler_unchecked(db, name, description) ==
  Result(Append(db, Planet(new_id(db), name, description)), 201, "")

(* app.py, the handlers behind Depends(get_current_user).                  *)
create_planet_handler(db, name, description) ==
  IF name \in names_of(db)
  THEN Result(db, 400, "Planet with this name already exists")
  ELSE Result(Append(db, Planet(new_id(db), name, description)), 201, "")

(* db.commit() raises IntegrityError when the new name is the name of      *)
(* another row (name is unique=True): the request ends in a 500 and the    *)
(* session is closed without a commit.                                     *)
update_planet_handler(db, planet_id, body) ==
  LET i == first_with_id(db, planet_id)
      updated == [db EXCEPT ![i] = patch(db[i], body)]
  IN IF i = 0 THEN Result(db, 404, "Planet not found")
     ELSE IF \E j \in 1..Len(db) : j # i /\ updated[j].name = updated[i].name
     THEN Result(db, 500, "Internal Server Error")
     ELSE Result(updated, 200, "")

(* delete_planet answering 204 whether or not the row was there.           *)
delete_planet_handler_idempotent(db, planet_id) ==
  LET i == first_with_id(db, planet_id)
  IN IF i = 0 THEN Result(db, 204, "")
     ELSE Result(SubSeq(db, 1, i - 1) \o SubSeq(db, i + 1, Len(db)), 204, "")

delete_planet_handler(db, planet_id) ==
  LET i == first_with_id(db, planet_id)
  IN IF i = 0 THEN Result(db, 404, "Planet not found")
     ELSE Result(SubSeq(db, 1, i - 1) \o SubSeq(db, i + 1, Len(db)), 204, "")

(* flask_app.py, the functions wrapped by @token_required.                 *)
flask_create_planet_handler(db, name, description) ==
  IF name \in names_of(db)
  THEN Result(db, 400, "Planet with this name already exists")
  ELSE Result(Append(db, Planet(new_id(db), name, description)), 201, "")

flask_update_planet_handler(db, planet_id, body) ==
  LET i == first_with_id(db, planet_id)
  IN IF i = 0 THEN Result(db, 404, "Planet not found")
     ELSE Result([db EXCEPT ![i] = flask_patch(db[i], body)], 200, "")

(* delete_planet without its "global planets_db": the filtered list is     *)
(* bound to a local name and the stored list stays as it was.              *)
flask_delete_planet_handler_local(db, planet_id) ==
  IF first_with_id(db, planet_id) = 0 THEN Result(db, 404, "Planet not found")
  ELSE Result(db, 204, "")

flask_delete_planet_handler(db, planet_id) ==
  IF first_with_id(db, planet_id) = 0 THEN Result(db, 404, "Planet not found")
  ELSE Result(SelectSeq(db, LAMBDA p : p.id # planet_id), 204, "")

(* ------------------------------- login -------------------------------- *)
LoginResult(status, detail, user, token) ==
  [status |-> status, detail |-> detail, user |-> user, token |-> token]

(* login telling an unknown username from a wrong password.                *)
login_handler_enumerating(db, username, password, t) ==
  LET user == authenticate_user(db, username, password)
  IN IF find_user(db, username) = None
     THEN LoginResult(401, "Incorrect username", None, None)
     ELSE IF user = None
     THEN LoginResult(401, "Incorrect password", None, None)
     ELSE LoginResult(200, "", user,
            Some(create_access_token(Some(user[1].username), Some(LOGIN_EXPIRE_MINUTES), t)))

(* login putting the principal's email, not its username, in the token.    *)
login_handler_email_subject(db, username, password, t) ==
  LET user == authenticate_user(db, username, password)
  IN IF user = None
     THEN LoginResult(401, "Incorrect username or password", None, None)
     ELSE LoginResult(200, "", user,
            Some(create_access_token(Some(user[1].email), Some(LOGIN_EXPIRE_MINUTES), t)))

login_handler(db, username, password, t) ==
  LET user == authenticate_user(db, username, password)
  IN IF user = None
     THEN LoginResult(401, "Incorrect username or password", None, None)
     ELSE LoginResult(200, "", user,
            Some(create_access_token(Some(user[1].username), Some(LOGIN_EXPIRE_MINUTES), t)))

flask_login_handler(db, username, password, t) ==
  LET user == find_user(db, username)
  IN IF user = None \/ ~verify_password(password, user[1].hashed_password)
     THEN LoginResult(401, "Incorrect username or password", None, None)
     ELSE LoginResult(200, "", user,
            Some(flask_create_access_token(Some(user[1].username),
                                           Some(flask_ACCESS_TOKEN_EXPIRE_MINUTES), t)))

(* ------------------------------- inputs ------------------------------- *)
(* The key of the running application, and a key that is not its own (to  *)
(* each application the other's key is a foreign key).                     *)
OwnKey == IF framework = "fastapi" THEN SECRET_KEY ELSE flask_SECRET_KEY
ForeignKey == IF framework = "fastapi" THEN flask_SECRET_KEY ELSE SECRET_KEY

ClaimsOf(sub, exp) == [sub |-> sub, exp |-> exp]

(* Payloads a client may hold: a stored principal with each expiry, no     *)
(* expiry, a subject that is no principal, and no subject.                 *)
PayloadChoices ==
  {ClaimsOf(Some("testuser"), Some(e)) : e \in 1..MaxExp}
    \cup {ClaimsOf(Some("testuser"), None),
          ClaimsOf(Some("ghost"), Some(MaxExp)),
          ClaimsOf(None, Some(MaxExp))}

(* Signed with the application's key under the configured algorithm.       *)
SignedTokens == {jwt_encode(c, OwnKey, ALGORITHM) : c \in PayloadChoices}

(* Signed with another key, signed under another algorithm, or declaring   *)
(* "none" with no signature.                                               *)
ForgedTokens ==
  {jwt_encode(ClaimsOf(Some("testuser"), Some(MaxExp)), ForeignKey, ALGORITHM),
   jwt_encode(ClaimsOf(Some("testuser"), Some(MaxExp)), OwnKey, "HS384"),
   [alg |-> "none", sub |-> Some("testuser"), exp |-> Some(MaxExp), sig |-> NoSignature]}

(* A part changed after signing: the subject or the expiry of a token the  *)
(* application signed, or the algorithm its header declares.               *)
TamperedTokens ==
  LET signed == jwt_encode(ClaimsOf(Some("ghost"), Some(0)), OwnKey, ALGORITHM)
      other == jwt_encode(ClaimsOf(Some("testuser"), Some(MaxExp)), OwnKey, "HS384")
  IN {[signed EXCEPT !.sub = Some("testuser")],
      [signed EXCEPT !.exp = Some(MaxExp)],
      [other EXCEPT !.alg = ALGORITHM]}

Tokens == SignedTokens \cup ForgedTokens \cup TamperedTokens \cup {GarbageToken}

Schemes == {"Bearer", "Token"}

Headers ==
  {NoHeader} \cup {Header(s, <<>>) : s \in Schemes}
             \cup {Header(s, <<tok>>) : s \in Schemes, tok \in Tokens}

(* The headers a client can send: any of the above, or the token it was    *)
(* last given, as a bearer token.                                          *)
HeadersNow ==
  Headers \cup (IF last.token = None THEN {} ELSE {Header("Bearer", last.token)})

Usernames == {"admin", "testuser", "ghost"}
Passwords == {admin123, test123, testpass123, wrongpassword}
PlanetNames == {"Earth", "Mars"}
Descriptions == {None}
PlanetIds == 1..MaxId
Bodies == {[EmptyBody EXCEPT !.name = Some(n)] : n \in PlanetNames}
Ttls == {None} \cup {Some(d) : d \in 0..MaxTtl}

(* ------------------------------- state -------------------------------- *)
(* last: the latest request and its response.  A token that was issued is  *)
(* kept while the clock runs; any other response is gone at the next tick. *)
Idle ==
  [op |-> "none", at |-> 0, header |-> NoHeader, username |-> "", password |-> <<>>,
   sub |-> None, ttl |-> None, status |-> 0, detail |-> "",
   guard |-> "", verified |-> FALSE, user |-> None, token |-> None]

Guarded(op, header, g, status, detail) ==
  [Idle EXCEPT !.op = op, !.at = now, !.header = header, !.status = status,
               !.detail = detail, !.guard = g.guard, !.verified = g.verified,
               !.user = g.user]

(* No planet request was made yet.                                         *)
NoReq ==
  [op |-> "none", authenticated |-> FALSE, planet_id |-> 0, name |-> "",
   description |-> None, body |-> EmptyBody, before |-> <<>>, status |-> 0,
   detail |-> ""]

Init ==
  /\ framework \in Frameworks
  /\ now = 0
  /\ users_db = IF framework = "fastapi" THEN test_users("salt1") ELSE init_data("salt1")
  /\ planets_db = <<>>
  /\ last = Idle
  /\ issued = {}
  /\ req = NoReq
  /\ stored_ids = {}
  /\ hash_run = <<>>
  /\ workers = <<>>

InBounds(db) == Len(db) <= MaxPlanets /\ \A i \in ids_of(db) : i <= MaxId

(* A guarded request.  The guard runs first; the body of the request is    *)
(* read by the handler, which runs only behind the guard.                  *)
Rejected(op, header, g) ==
  /\ planets_db' = planets_db
  /\ last' = Guarded(op, header, g, g.status, g.detail)
  /\ UNCHANGED <<framework, now, users_db, aside>>

Handled(op, header, g, r) ==
  /\ InBounds(r.planets)
  /\ planets_db' = r.planets
  /\ last' = Guarded(op, header, g, r.status, r.detail)
  /\ UNCHANGED <<framework, now, users_db, aside>>

(* ------------------------------ FastAPI ------------------------------- *)
create_planet(header) ==
  /\ framework = "fastapi"
  /\ LET g == get_current_user(header, users_db, now)
     IN IF g.guard # "AUTHENTICATED" THEN Rejected("create", header, g)
        ELSE \E name \in PlanetNames, description \in Descriptions :
               Handled("create", header, g,
                       create_planet_handler(planets_db, name, description))

update_planet(header) ==
  /\ framework = "fastapi"
  /\ LET g == get_current_user(header, users_db, now)
     IN IF g.guard # "AUTHENTICATED" THEN Rejected("update", header, g)
        ELSE \E planet_id \in PlanetIds, body \in Bodies :
               Handled("update", header, g,
                       update_planet_handler(planets_db, planet_id, body))

delete_planet(header) ==
  /\ framework = "fastapi"
  /\ LET g == get_current_user(header, users_db, now)
     IN IF g.guard # "AUTHENTICATED" THEN Rejected("delete", header, g)
        ELSE \E planet_id \in PlanetIds :
               Handled("delete", header, g, delete_planet_handler(planets_db, planet_id))

get_current_user_info(header) ==
  /\ framework = "fastapi"
  /\ LET g == get_current_user(header, users_db, now)
     IN IF g.guard # "AUTHENTICATED" THEN Rejected("me", header, g)
        ELSE Handled("me", header, g, Result(planets_db, 200, ""))

(* login locking the account of a username after a failed attempt.        *)
login_locking(username, password) ==
  /\ framework = "fastapi"
  /\ LET r == login_handler(users_db, username, password, now)
     IN /\ last' = [Idle EXCEPT !.op = "login", !.at = now, !.username = username,
                                !.password = password, !.status = r.status,
                                !.detail = r.detail, !.user = r.user, !.token = r.token]
        /\ users_db' = IF r.status = 200 THEN users_db
                       ELSE [i \in 1..Len(users_db) |->
                               IF users_db[i].username = username
                               THEN [users_db[i] EXCEPT !.is_active = FALSE]
                               ELSE users_db[i]]
  /\ UNCHANGED <<framework, now, planets_db, aside>>

login(username, password) ==
  /\ framework = "fastapi"
  /\ LET r == login_handler(users_db, username, password, now)
     IN last' = [Idle EXCEPT !.op = "login", !.at = now, !.username = username,
                             !.password = password, !.status = r.status,
                             !.detail = r.detail, !.user = r.user, !.token = r.token]
  /\ UNCHANGED <<framework, now, users_db, planets_db, aside>>

(* tests/conftest.py auth_token, tests/test_models.py: a direct call.      *)
auth_token(sub, ttl) ==
  /\ framework = "fastapi"
  /\ last' = [Idle EXCEPT !.op = "issue", !.at = now, !.sub = Some(sub), !.ttl = ttl,
                          !.token = Some(create_access_token(Some(sub), ttl, now))]
  /\ UNCHANGED <<framework, now, users_db, planets_db, aside>>

(* ------------------------------- Flask -------------------------------- *)
flask_create_planet(header) ==
  /\ framework = "flask"
  /\ LET g == token_required(header, users_db, now)
     IN IF g.guard # "AUTHENTICATED" THEN Rejected("create", header, g)
        ELSE \E name \in PlanetNames, description \in Descriptions :
               Handled("create", header, g,
                       flask_create_planet_handler(planets_db, name, description))

flask_update_planet(header) ==
  /\ framework = "flask"
  /\ LET g == token_required(header, users_db, now)
     IN IF g.guard # "AUTHENTICATED" THEN Rejected("update", header, g)
        ELSE \E planet_id \in PlanetIds, body \in Bodies :
               Handled("update", header, g,
                       flask_update_planet_handler(planets_db, planet_id, body))

flask_delete_planet(header) ==
  /\ framework = "flask"
  /\ LET g == token_required(header, users_db, now)
     IN IF g.guard # "AUTHENTICATED" THEN Rejected("delete", header, g)
        ELSE \E planet_id \in PlanetIds :
               Handled("delete", header, g,
                       flask_delete_planet_handler(planets_db, planet_id))

flask_get_current_user_info(header) ==
  /\ framework = "flask"
  /\ LET g == token_required(header, users_db, now)
     IN IF g.guard # "AUTHENTICATED" THEN Rejected("me", header, g)
        ELSE Handled("me", header, g, Result(planets_db, 200, ""))

flask_login(username, password) ==
  /\ framework = "flask"
  /\ LET r == flask_login_handler(users_db, username, password, now)
     IN last' = [Idle EXCEPT !.op = "login", !.at = now, !.username = username,
                             !.password = password, !.status = r.status,
                             !.detail = r.detail, !.user = r.user, !.token = r.token]
  /\ UNCHANGED <<framework, now, users_db, planets_db, aside>>

flask_auth_token(sub, ttl) ==
  /\ framework = "flask"
  /\ last' = [Idle EXCEPT !.op = "issue", !.at = now, !.sub = Some(sub), !.ttl = ttl,
                          !.token = Some(flask_create_access_token(Some(sub), ttl, now))]
  /\ UNCHANGED <<framework, now, users_db, planets_db, aside>>

(* ------------------------------- clock -------------------------------- *)
Tick ==
  /\ now < MaxClock
  /\ now' = now + 1
  /\ last' = IF last.op \in {"issue", "login"} THEN last ELSE Idle
  /\ UNCHANGED <<framework, users_db, planets_db, aside>>

Next ==
  \/ \E h \in HeadersNow : create_planet(h)
  \/ \E h \in HeadersNow : update_planet(h)
  \/ \E h \in HeadersNow : delete_planet(h)
  \/ \E h \in HeadersNow : get_current_user_info(h)
  \/ \E u \in Usernames, p \in Passwords : login(u, p)
  \/ \E u \in Usernames, d \in Ttls : auth_token(u, d)
  \/ \E h \in HeadersNow : flask_create_planet(h)
  \/ \E h \in HeadersNow : flask_update_planet(h)
  \/ \E h \in HeadersNow : flask_delete_planet(h)
  \/ \E h \in HeadersNow : flask_get_current_user_info(h)
  \/ \E u \in Usernames, p \in Passwords : flask_login(u, p)
  \/ \E u \in Usernames, d \in Ttls : flask_auth_token(u, d)
  \/ Tick

Spec == Init /\ [][Next]_vars

(* ------------------------------ sessions ------------------------------ *)
(* The client of the test_user fixture keeps the tokens it is given (the   *)
(* auth_token and auth_headers fixtures) and presents any of them later,   *)
(* between logins of its own and of others, direct issues of short-lived   *)
(* tokens and planet requests.                                             *)
keep ==
  /\ last.token # None
  /\ last.token[1].sub = Some("testuser")
  /\ last.token[1] \notin issued
  /\ Cardinality(issued) < MaxIssued
  /\ issued' = issued \cup {last.token[1]}
  /\ UNCHANGED <<framework, now, users_db, planets_db, last, req, hash_run, workers,
                 stored_ids>>

auth_headers(token) == Header("Bearer", <<token>>)

SessionNext ==
  \/ \E u \in Usernames, p \in Passwords : login(u, p) /\ last'.status = 200
  \/ auth_token("testuser", Some(MaxTtl))
  \/ \E u \in Usernames, p \in Passwords : flask_login(u, p) /\ last'.status = 200
  \/ flask_auth_token("testuser", Some(MaxTtl))
  \/ keep
  \/ \E token \in issued : create_planet(auth_headers(token))
  \/ \E token \in issued : delete_planet(auth_headers(token))
  \/ \E token \in issued : get_current_user_info(auth_headers(token))
  \/ \E token \in issued : flask_create_planet(auth_headers(token))
  \/ \E token \in issued : flask_delete_planet(auth_headers(token))
  \/ \E token \in issued : flask_get_current_user_info(auth_headers(token))
  \/ Tick

SessionSpec == Init /\ [][SessionNext]_vars

(* -------------------------- the active flag --------------------------- *)
(* User.is_active is a column (a dict entry in Flask) that no route        *)
(* writes; rows are created with True and the flag changes only by a       *)
(* write to the store from outside.  The store starts with any             *)
(* combination of flags; then logins and GET /auth/me follow.              *)
set_active(db, flags) ==
  [i \in 1..Len(db) |-> [db[i] EXCEPT !.is_active = flags[i]]]

activated(db) == set_active(db, [i \in 1..Len(db) |-> TRUE])

ActiveInit ==
  /\ framework \in Frameworks
  /\ now = 0
  /\ \E flags \in [1..2 -> BOOLEAN] :
       users_db = set_active(IF framework = "fastapi" THEN test_users("salt1")
                             ELSE init_data("salt1"), flags)
  /\ planets_db = <<>>
  /\ last = Idle
  /\ issued = {}
  /\ req = NoReq
  /\ stored_ids = {}
  /\ hash_run = <<>>
  /\ workers = <<>>

ActiveNext ==
  \/ \E u \in Usernames, p \in Passwords : login(u, p)
  \/ \E h \in HeadersNow : get_current_user_info(h)
  \/ \E u \in Usernames, p \in Passwords : flask_login(u, p)
  \/ \E h \in HeadersNow : flask_get_current_user_info(h)
  \/ Tick

ActiveSpec == ActiveInit /\ [][ActiveNext]_vars

(* ----------------------------- the hasher ----------------------------- *)
(* One run of the password hasher: get_password_hash(password), which      *)
(* draws a fresh salt, then verify_password(plain_password, hashed).       *)
(* The passwords are those of the fixtures and the tests, a password of    *)
(* exactly 72 characters and two longer ones that differ after the 72nd.   *)
Pad == [i \in 1..BCRYPT_MAX_BYTES |-> "a"]

HashPasswords == Passwords \cup {Pad, Pad \o <<"1">>, Pad \o <<"2">>}

Salts == {"salt1", "salt2"}

HashRun(password, plain_password, hashed, verified) ==
  [password |-> password, plain_password |-> plain_password,
   hashed |-> hashed, verified |-> verified]

HashInit ==
  /\ framework \in Frameworks
  /\ now = 0
  /\ users_db = <<>>
  /\ planets_db = <<>>
  /\ last = Idle
  /\ issued = {}
  /\ req = NoReq
  /\ stored_ids = {}
  /\ workers = <<>>
  /\ \E password \in HashPasswords, plain_password \in HashPasswords :
       hash_run = HashRun(password, plain_password, None, None)

hash_password ==
  /\ hash_run.hashed = None
  /\ \E salt \in Salts :
       hash_run' = [hash_run EXCEPT !.hashed = Some(get_password_hash(hash_run.password, salt))]
  /\ UNCHANGED <<framework, now, users_db, planets_db, last, issued, req, workers,
                 stored_ids>>

check_password ==
  /\ hash_run.hashed # None
  /\ hash_run.verified = None
  /\ hash_run' = [hash_run EXCEPT
                    !.verified = Some(verify_password(hash_run.plain_password,
                                                      hash_run.hashed[1]))]
  /\ UNCHANGED <<framework, now, users_db, planets_db, last, issued, req, workers,
                 stored_ids>>

HashNext == hash_password \/ check_password

HashSpec == HashInit /\ [][HashNext]_vars

(* ------------------------------ the store ----------------------------- *)
(* The planet requests of a client holding the auth_headers fixture, with  *)
(* the arguments of each request and the store it met kept in req.         *)
StoreDescriptions == {None, Some("A test planet")}

(* PUT bodies: a new name, a new description, a description sent as null,  *)
(* the id of the first planet, and a name together with a description.     *)
StoreBodies ==
  {[EmptyBody EXCEPT !.name = Some(n)] : n \in PlanetNames}
    \cup {[EmptyBody EXCEPT !.description = Some(d)] : d \in StoreDescriptions}
    \cup {[EmptyBody EXCEPT !.id = Some(new_id(<<>>))]}
    \cup {[EmptyBody EXCEPT !.name = Some("Mars"),
                            !.description = Some(Some("A test planet"))]}

StoreHeader ==
  auth_headers(IF framework = "fastapi"
               THEN create_access_token(Some("testuser"), None, now)
               ELSE flask_create_access_token(Some("testuser"), None, now))

(* One request: the guard, then the handler's result r.                    *)
Served(op, planet_id, name, description, body, r) ==
  LET g == guard(StoreHeader, users_db, now)
      done == IF g.guard = "AUTHENTICATED" THEN r
              ELSE Result(planets_db, g.status, g.detail)
  IN /\ InBounds(done.planets)
     /\ planets_db' = done.planets
     /\ req' = [op |-> op, authenticated |-> g.guard = "AUTHENTICATED",
                planet_id |-> planet_id, name |-> name, description |-> description,
                body |-> body, before |-> planets_db, status |-> done.status,
                detail |-> done.detail]
     /\ stored_ids' = stored_ids \cup ids_of(done.planets)
     /\ UNCHANGED <<framework, now, users_db, last, issued, hash_run, workers>>

store_create_planet(name, description) ==
  /\ framework = "fastapi"
  /\ Served("create", 0, name, description, EmptyBody,
            create_planet_handler(planets_db, name, description))

store_update_planet(planet_id, body) ==
  /\ framework = "fastapi"
  /\ Served("update", planet_id, "", None, body,
            update_planet_handler(planets_db, planet_id, body))

store_delete_planet(planet_id) ==
  /\ framework = "fastapi"
  /\ Served("delete", planet_id, "", None, EmptyBody,
            delete_planet_handler(planets_db, planet_id))

flask_store_create_planet(name, description) ==
  /\ framework = "flask"
  /\ Served("create", 0, name, description, EmptyBody,
            flask_create_planet_handler(planets_db, name, description))

flask_store_update_planet(planet_id, body) ==
  /\ framework = "flask"
  /\ Served("update", planet_id, "", None, body,
            flask_update_planet_handler(planets_db, planet_id, body))

flask_store_delete_planet(planet_id) ==
  /\ framework = "flask"
  /\ Served("delete", planet_id, "", None, EmptyBody,
            flask_delete_planet_handler(planets_db, planet_id))

StoreNext ==
  \/ \E n \in PlanetNames, d \in StoreDescriptions : store_create_planet(n, d)
  \/ \E i \in PlanetIds, b \in StoreBodies : store_update_planet(i, b)
  \/ \E i \in PlanetIds : store_delete_planet(i)
  \/ \E n \in PlanetNames, d \in StoreDescriptions : flask_store_create_planet(n, d)
  \/ \E i \in PlanetIds, b \in StoreBodies : flask_store_update_planet(i, b)
  \/ \E i \in PlanetIds : flask_store_delete_planet(i)

StoreSpec == Init /\ [][StoreNext]_vars

(* ------------------------ concurrent requests ------------------------- *)
(* Two authenticated requests that are in progress at the same time: two  *)
(* POST /planets, or a POST /planets and a Flask DELETE /planets/{id}      *)
(* (Flask's app.run serves each request on a thread of its own; FastAPI    *)
(* workers share the database).  A step is one look-up or one write of     *)
(* the store; the steps of the two requests interleave in any order.       *)
(*   op        "create" or "delete";                                       *)
(*   pc        "start", "checked", "numbered" (create), "found",           *)
(*             "filtered" (delete) or "done";                              *)
(*   new_id    the id Flask computed for the planet (0: not yet);          *)
(*   copy      the filtered list DELETE built and has yet to bind;         *)
(*   status    the response (0: none yet).                                 *)
Workers == {1, 2}

Worker(name) ==
  [op |-> "create", pc |-> "start", name |-> name, planet_id |-> 0, new_id |-> 0,
   copy |-> <<>>, status |-> 0]

Deleter(planet_id) ==
  [op |-> "delete", pc |-> "start", name |-> "", planet_id |-> planet_id, new_id |-> 0,
   copy |-> <<>>, status |-> 0]

RaceInit ==
  /\ framework \in Frameworks
  /\ now = 0
  /\ users_db = IF framework = "fastapi" THEN test_users("salt1") ELSE init_data("salt1")
  /\ planets_db \in {<<>>, <<Planet(new_id(<<>>), "Mars", None)>>}
  /\ last = Idle
  /\ issued = {}
  /\ req = NoReq
  /\ stored_ids = {}
  /\ hash_run = <<>>
  /\ \E first \in PlanetNames :
       \/ \E second \in PlanetNames : workers = <<Worker(first), Worker(second)>>
       \/ \E planet_id \in PlanetIds :
            framework = "flask" /\ workers = <<Worker(first), Deleter(planet_id)>>

Respond(w, status) == [workers EXCEPT ![w].pc = "done", ![w].status = status]

RaceFrame ==
  UNCHANGED <<framework, now, users_db, last, issued, req, hash_run, stored_ids>>

(* app.py 309-315: the guard, then the query for a planet of that name.    *)
check_name(w) ==
  /\ framework = "fastapi"
  /\ workers[w].op = "create"
  /\ workers[w].pc = "start"
  /\ LET g == get_current_user(StoreHeader, users_db, now)
     IN workers' = IF g.guard # "AUTHENTICATED" THEN Respond(w, g.status)
                   ELSE IF workers[w].name \in names_of(planets_db) THEN Respond(w, 400)
                   ELSE [workers EXCEPT ![w].pc = "checked"]
  /\ planets_db' = planets_db
  /\ RaceFrame

(* app.py 318-321: db.add and db.commit.  The INSERT fails on the unique   *)
(* index of planets.name when a row of that name was committed since the   *)
(* query: IntegrityError, a 500, nothing stored.                           *)
commit_planet(w) ==
  /\ framework = "fastapi"
  /\ workers[w].pc = "checked"
  /\ IF workers[w].name \in names_of(planets_db)
     THEN planets_db' = planets_db /\ workers' = Respond(w, 500)
     ELSE /\ planets_db' = Append(planets_db,
                                  Planet(new_id(planets_db), workers[w].name, None))
          /\ workers' = Respond(w, 201)
  /\ RaceFrame

(* flask_app.py 166-169: the guard, then the scan for a planet of that     *)
(* name.                                                                   *)
flask_check_name(w) ==
  /\ framework = "flask"
  /\ workers[w].op = "create"
  /\ workers[w].pc = "start"
  /\ LET g == token_required(StoreHeader, users_db, now)
     IN workers' = IF g.guard # "AUTHENTICATED" THEN Respond(w, g.status)
                   ELSE IF workers[w].name \in names_of(planets_db) THEN Respond(w, 400)
                   ELSE [workers EXCEPT ![w].pc = "checked"]
  /\ planets_db' = planets_db
  /\ RaceFrame

(* flask_app.py 171: new_id = max([p['id'] for p in planets_db]) + 1.      *)
flask_next_id(w) ==
  /\ framework = "flask"
  /\ workers[w].pc = "checked"
  /\ workers' = [workers EXCEPT ![w].pc = "numbered", ![w].new_id = new_id(planets_db)]
  /\ planets_db' = planets_db
  /\ RaceFrame

(* flask_app.py 172-185: planets_db.append(new_planet), 201.               *)
flask_append_planet(w) ==
  /\ framework = "flask"
  /\ workers[w].pc = "numbered"
  /\ planets_db' = Append(planets_db, Planet(workers[w].new_id, workers[w].name, None))
  /\ workers' = Respond(w, 201)
  /\ RaceFrame

(* flask_app.py 209-212: the guard, then the scan for the planet.          *)
flask_find_planet(w) ==
  /\ framework = "flask"
  /\ workers[w].op = "delete"
  /\ workers[w].pc = "start"
  /\ LET g == token_required(StoreHeader, users_db, now)
     IN workers' = IF g.guard # "AUTHENTICATED" THEN Respond(w, g.status)
                   ELSE IF first_with_id(planets_db, workers[w].planet_id) = 0
                   THEN Respond(w, 404)
                   ELSE [workers EXCEPT ![w].pc = "found"]
  /\ planets_db' = planets_db
  /\ RaceFrame

(* flask_app.py 214, right-hand side: the list comprehension reads the     *)
(* stored list and builds a new one.                                       *)
flask_filter_planets(w) ==
  /\ framework = "flask"
  /\ workers[w].pc = "found"
  /\ workers' = [workers EXCEPT
                   ![w].pc = "filtered",
                   ![w].copy = SelectSeq(planets_db,
                                         LAMBDA p : p.id # workers[w].planet_id)]
  /\ planets_db' = planets_db
  /\ RaceFrame

(* flask_app.py 214-215: the global name is bound to the new list, 204.    *)
flask_rebind_planets(w) ==
  /\ framework = "flask"
  /\ workers[w].pc = "filtered"
  /\ planets_db' = workers[w].copy
  /\ workers' = Respond(w, 204)
  /\ RaceFrame

RaceNext ==
  \/ \E w \in Workers : check_name(w)
  \/ \E w \in Workers : commit_planet(w)
  \/ \E w \in Workers : flask_check_name(w)
  \/ \E w \in Workers : flask_next_id(w)
  \/ \E w \in Workers : flask_append_planet(w)
  \/ \E w \in Workers : flask_find_planet(w)
  \/ \E w \in Workers : flask_filter_planets(w)
  \/ \E w \in Workers : flask_rebind_planets(w)

RaceSpec == RaceInit /\ [][RaceNext]_vars

(* ------------------------- terms of the claims ------------------------ *)
GuardedOps == {"create", "update", "delete", "me"}

(* The header has the shape "Bearer <token>".                              *)
BearerShape(header) ==
  header.present /\ lower(header.scheme) = "bearer" /\ Len(header.words) = 1

(* The token is signed with the process key under the configured           *)
(* algorithm and nothing of it was changed after signing.                  *)
ProperlySigned(token) ==
  /\ token.alg = ALGORITHM
  /\ token.sig = hmac(OwnKey, ALGORITHM, token.sub, token.exp)

IsPrincipal(sub) == sub # None /\ \E i \in 1..Len(users_db) : users_db[i].username = sub[1]

LastIsGuarded == last.op \in GuardedOps
LastBearer == LastIsGuarded /\ BearerShape(last.header)
LastToken == last.header.words[1]

(* C1: the planet store is modified only by a request whose guard reached  *)
(* AUTHENTICATED: a request with no header, a malformed header (not the    *)
(* shape "Bearer <token>"), a token that is not properly signed, a token   *)
(* past its expiry, or a token whose subject is no stored principal leaves *)
(* the planet store as it was.                                             *)
C1_Original ==
  [][planets_db' # planets_db =>
       /\ last'.guard = "AUTHENTICATED"
       /\ BearerShape(last'.header)
       /\ ProperlySigned(last'.header.words[1])
       /\ ~(last'.header.words[1].exp # None /\ last'.header.words[1].exp[1] < last'.at)
       /\ IsPrincipal(last'.header.words[1].sub)]_vars

(* C2: in both guards a protected request with no Authorization header     *)
(* ends in the 403-class outcome, and a request with a bearer token that   *)
(* is not properly signed ends in the 401-class outcome.                   *)
C2_Original ==
  /\ (LastIsGuarded /\ ~last.header.present) => last.status = 403
  /\ (LastBearer /\ ~ProperlySigned(LastToken)) => last.status = 401

(* C3: a protected request whose header uses a scheme other than Bearer    *)
(* ends in the 403-class outcome, and the text after the scheme is never   *)
(* passed to token verification.                                           *)
C3_Original ==
  (LastIsGuarded /\ last.header.present /\ lower(last.header.scheme) # "bearer")
    => (last.status = 403 /\ ~last.verified)

(* C4: a properly signed token is rejected with the 401-class outcome      *)
(* whenever now >= its expiry, the instant now = expiry included.          *)
C4_Original ==
  (LastBearer /\ ProperlySigned(LastToken) /\ LastToken.exp # None
     /\ last.at >= LastToken.exp[1])
    => (last.status = 401 /\ last.guard = "REJECTED_INVALID")

(* C5: for every ttl t passed to create_access_token, 0 included, the      *)
(* issued token carries expiry = issuance time + t; the 30-minute default  *)
(* is applied only when no ttl is passed.                                  *)
C5_Original ==
  (last.op = "issue" /\ last.ttl # None)
    => last.token[1].exp = Some(last.at + last.ttl[1])

(* C6: a properly signed token that carries no expiry claim is rejected    *)
(* by the guard with the 401-class outcome.                                *)
C6_Original ==
  (LastBearer /\ ProperlySigned(LastToken) /\ LastToken.exp = None)
    => (last.status = 401 /\ last.guard = "REJECTED_INVALID")

(* C7: the guard resolves a token to a principal only if the token is      *)
(* signed with the process key under the configured algorithm and is       *)
(* unaltered; a bearer token signed with another key, declaring another    *)
(* algorithm or changed after signing ends in the 401-class outcome.       *)
C7_SignaturePinned ==
  /\ (LastIsGuarded /\ last.guard = "AUTHENTICATED")
       => (last.header.words # <<>> /\ ProperlySigned(LastToken))
  /\ (LastBearer /\ ~ProperlySigned(LastToken))
       => (last.status = 401 /\ last.guard = "REJECTED_INVALID" /\ last.user = None)

(* A token the application signed, altered afterwards, was presented and   *)
(* rejected.                                                               *)
C7_Witness ==
  /\ LastBearer
  /\ LastToken.alg = ALGORITHM
  /\ LastToken.sig.key = OwnKey
  /\ ~ProperlySigned(LastToken)
  /\ last.status = 401

(* C8: login's credential check returns the stored principal if and only   *)
(* if a principal with exactly the supplied username exists and the        *)
(* password verifies against its stored hash; otherwise it returns None,   *)
(* and it never returns a principal with another username.                 *)
C8_AuthenticateIff ==
  last.op = "login" =>
    LET matching == {i \in 1..Len(users_db) :
                       /\ users_db[i].username = last.username
                       /\ verify_password(last.password, users_db[i].hashed_password)}
    IN IF matching = {}
       THEN last.user = None /\ last.status = 401
       ELSE /\ last.user # None
            /\ \E i \in matching : last.user[1] = users_db[i]
            /\ last.user[1].username = last.username

(* A login with a stored username and its password returned the principal. *)
C8_Witness ==
  /\ last.op = "login"
  /\ last.user # None
  /\ last.user[1].username = last.username

(* C9: a failed login answers 401 with the detail "Incorrect username or   *)
(* password", and the answer is the same as that of every other failing    *)
(* login, whether its username is stored or not.                           *)
C9_LoginFailureUniform ==
  (last.op = "login" /\ last.status # 200) =>
    /\ last.status = 401
    /\ last.detail = "Incorrect username or password"
    /\ \A u \in Usernames, p \in Passwords :
         LET r == IF framework = "fastapi"
                  THEN login_handler(users_db, u, p, now)
                  ELSE flask_login_handler(users_db, u, p, now)
         IN r.status # 200 =>
              /\ r.status = last.status
              /\ r.detail = last.detail
              /\ r.token = last.token
              /\ r.user = last.user

(* A login with an unknown username failed, and a login with a stored      *)
(* username and a wrong password fails too.                                *)
C9_Witness ==
  /\ last.op = "login"
  /\ last.status = 401
  /\ find_user(users_db, last.username) = None
  /\ \E u \in Usernames :
       /\ find_user(users_db, u) # None
       /\ authenticate_user(users_db, u, wrongpassword) = None

(* C10: a properly signed, unexpired bearer token whose subject is not the *)
(* username of any stored principal ends in REJECTED(invalid), the         *)
(* 401-class outcome, never in AUTHENTICATED.                              *)
C10_UnknownSubjectRejected ==
  (LastBearer /\ ProperlySigned(LastToken) /\ LastToken.exp # None
     /\ LastToken.exp[1] > last.at /\ ~IsPrincipal(LastToken.sub))
    => (last.guard = "REJECTED_INVALID" /\ last.status = 401 /\ last.user = None)

(* A valid token for "ghost", who is no principal, was presented.          *)
C10_Witness ==
  /\ LastBearer
  /\ ProperlySigned(LastToken)
  /\ LastToken.exp # None /\ LastToken.exp[1] > last.at
  /\ LastToken.sub = Some("ghost")
  /\ last.status = 401

LoginSucceeded == last.op = "login" /\ last.status = 200

(* C11: a successful login returns a token whose subject is the username   *)
(* of the principal whose credentials were verified, and at every instant  *)
(* from its issue to just before its expiry the guard resolves that token  *)
(* to this same principal; no request is ever resolved to a principal      *)
(* other than the one its token names.                                     *)
C11_LoginTokenResolves ==
  /\ LoginSucceeded =>
       /\ last.user # None
       /\ last.user[1].username = last.username
       /\ verify_password(last.password, last.user[1].hashed_password)
       /\ last.token # None
       /\ last.token[1].sub = Some(last.user[1].username)
       /\ last.token[1].exp # None
       /\ \A t \in last.at..(last.token[1].exp[1] - 1) :
            LET g == guard(Header("Bearer", last.token), users_db, t)
            IN g.guard = "AUTHENTICATED" /\ g.user = last.user
  /\ (LastIsGuarded /\ last.guard = "AUTHENTICATED") =>
       /\ last.user # None
       /\ LastToken.sub = Some(last.user[1].username)

(* A login succeeded, the clock ran on, and the token still resolves to    *)
(* the principal that logged in.                                           *)
C11_Witness ==
  /\ LoginSucceeded
  /\ now > last.at
  /\ guard(Header("Bearer", last.token), users_db, now).user = last.user

(* C12: a token issued for a stored principal is accepted by the guard in  *)
(* every state before its expiry, whatever logins, issues and planet       *)
(* requests happened since it was issued; all the tokens a client holds    *)
(* for one principal are accepted side by side, and a held token that is   *)
(* presented before its expiry is never refused.                           *)
C12_TokensStayValid ==
  /\ \A token \in issued :
       (IsPrincipal(token.sub) /\ now < token.exp[1]) =>
         LET g == guard(auth_headers(token), users_db, now)
         IN g.guard = "AUTHENTICATED" /\ g.user = find_user(users_db, token.sub[1])
  /\ (LastBearer /\ LastToken \in issued /\ IsPrincipal(LastToken.sub)
        /\ last.at < LastToken.exp[1])
       => (last.guard = "AUTHENTICATED" /\ last.status \notin {401, 403})

(* Two tokens of one principal are held and valid, a planet was created    *)
(* since the older one was issued, and the older one was just presented    *)
(* after the clock ran on, and accepted.                                   *)
C12_Witness ==
  /\ \E older, newer \in issued :
       /\ older.sub = newer.sub
       /\ older.exp[1] < newer.exp[1]
       /\ now < older.exp[1]
       /\ LastBearer /\ LastToken = older
  /\ last.guard = "AUTHENTICATED"
  /\ last.at > 0
  /\ planets_db # <<>>

(* The step was a login, a request the guard rejected, or a request that   *)
(* runs the guard and nothing else (GET /auth/me).                         *)
GuardOrLoginOnly(request) ==
  \/ request.op = "login"
  \/ request.op \in GuardedOps /\ request.guard # "AUTHENTICATED"
  \/ request.op = "me"

(* The first instant after the expiry of the token a header carries.       *)
PastExpiry(header) ==
  IF header.words = <<>> \/ header.words[1].exp = None THEN {}
  ELSE {header.words[1].exp[1] + 1}

(* C13: the guard and login have no side effect on the server: a step      *)
(* that is a login (whatever its outcome) or that runs only the guard      *)
(* leaves every principal and the planet store as they were, and the       *)
(* presented token is still refused once its expiry has passed (it was     *)
(* neither extended nor refreshed).                                        *)
C13_GuardAndLoginFrame ==
  [][GuardOrLoginOnly(last') =>
       /\ users_db' = users_db
       /\ planets_db' = planets_db
       /\ \A t \in PastExpiry(last'.header) :
            guard(last'.header, users_db', t).guard # "AUTHENTICATED"]_vars

(* GET /auth/me was answered for an authenticated caller while planets     *)
(* were stored.                                                            *)
C13_Witness ==
  /\ last.op = "me"
  /\ last.guard = "AUTHENTICATED"
  /\ last.status = 200
  /\ planets_db # <<>>

Authenticated(op) == req.op = op /\ req.authenticated

(* C14: an authenticated POST /planets whose name is the name of a planet  *)
(* already stored returns 400 and leaves the store as it was: no planet    *)
(* added and none altered.                                                 *)
C14_DuplicateNameRefused ==
  (Authenticated("create") /\ req.name \in names_of(req.before))
    => (req.status = 400 /\ planets_db = req.before)

(* A create with a stored name was made while another planet was stored    *)
(* too.                                                                    *)
C14_Witness ==
  /\ Authenticated("create")
  /\ req.name \in names_of(req.before)
  /\ Len(req.before) > 1
  /\ req.status = 400

(* C15: in every reachable state, after any sequence of authenticated      *)
(* create, update and delete requests, no two stored planets have the      *)
(* same name.                                                              *)
C15_Original ==
  \A i, j \in 1..Len(planets_db) :
    i # j => planets_db[i].name # planets_db[j].name

(* C16: an authenticated PUT or DELETE on /planets/{id} for an id that no  *)
(* stored planet has returns 404 and leaves the store as it was.           *)
C16_AbsentIdNotFound ==
  ((Authenticated("update") \/ Authenticated("delete"))
     /\ req.planet_id \notin ids_of(req.before))
    => (req.status = 404 /\ req.detail = "Planet not found" /\ planets_db = req.before)

(* A PUT for an id that is not stored was made while a planet with         *)
(* another id was stored.                                                  *)
C16_Witness ==
  /\ Authenticated("update")
  /\ req.before # <<>>
  /\ req.planet_id \notin ids_of(req.before)
  /\ req.status = 404

(* C17: once an authenticated DELETE /planets/{id} has returned 204, no    *)
(* planet with that id is stored: GET /planets/{id} returns 404 and GET    *)
(* /planets does not list it, while every planet with another id is still  *)
(* stored, unchanged and in its place.                                     *)
C17_DeletedIsGone ==
  (Authenticated("delete") /\ req.status = 204) =>
    /\ req.planet_id \in ids_of(req.before)
    /\ get_planet(planets_db, req.planet_id).status = 404
    /\ \A i \in 1..Len(get_planets(planets_db)) :
         get_planets(planets_db)[i].id # req.planet_id
    /\ planets_db = SelectSeq(req.before, LAMBDA planet : planet.id # req.planet_id)

(* A planet was deleted and another one stayed.                            *)
C17_Witness ==
  /\ Authenticated("delete")
  /\ req.status = 204
  /\ Len(req.before) > 1
  /\ planets_db # <<>>

(* C18: a successful PUT /planets/{id} sets exactly the fields supplied in *)
(* the body to the supplied values and leaves every other field of that    *)
(* planet, its id included, and every other planet unchanged.              *)
C18_Original ==
  (Authenticated("update") /\ req.status = 200) =>
    LET i == first_with_id(req.before, req.planet_id)
    IN /\ Len(planets_db) = Len(req.before)
       /\ \A j \in 1..Len(req.before) : j # i => planets_db[j] = req.before[j]
       /\ planets_db[i].id = req.before[i].id
       /\ planets_db[i].name =
            IF req.body.name = <<>> THEN req.before[i].name ELSE req.body.name[1]
       /\ planets_db[i].description =
            IF req.body.description = <<>> THEN req.before[i].description
            ELSE req.body.description[1]

(* C19: for all passwords p, verify_password(p, get_password_hash(p)) is   *)
(* true, and for all p1 # p2, verify_password(p1, get_password_hash(p2))   *)
(* is false: a password verifies against a hash exactly when it is the     *)
(* password that was hashed.                                               *)
C19_Original ==
  hash_run.verified # None =>
    (hash_run.verified[1] <=> hash_run.plain_password = hash_run.password)

(* C20: when two authenticated POST /planets with the same name run at the *)
(* same time, their name check and their insert interleaved in any order,  *)
(* at most one of them returns 201 and at most one planet of that name is  *)
(* stored.                                                                 *)
C20_Original ==
  workers[1].name = workers[2].name =>
    /\ ~(workers[1].status = 201 /\ workers[2].status = 201)
    /\ Cardinality({i \in 1..Len(planets_db) : planets_db[i].name = workers[1].name}) <= 1

(* C21: in every reachable state of the planet store, under any sequence   *)
(* and any interleaving of authenticated create, update and delete         *)
(* requests, the ids of the stored planets are pairwise distinct.          *)
C21_Original ==
  \A i, j \in 1..Len(planets_db) :
    i # j => planets_db[i].id # planets_db[j].id

(* C22: in the Flask variant, a planet whose create request returned 201   *)
(* stays in planets_db until a DELETE for its own id succeeds, under any    *)
(* interleaving of a concurrent create with a concurrent delete of         *)
(* another id.                                                             *)
C22_Original ==
  framework = "flask" =>
    \A w \in Workers :
      (/\ workers[w].op = "create"
       /\ workers[w].status = 201
       /\ ~\E v \in Workers : /\ workers[v].op = "delete"
                              /\ workers[v].status = 204
                              /\ workers[v].planet_id = workers[w].new_id)
        => \E i \in 1..Len(planets_db) :
             /\ planets_db[i].id = workers[w].new_id
             /\ planets_db[i].name = workers[w].name

(* C23: neither login nor the guard depends on the active flag: whatever   *)
(* the is_active values of the store, authenticate_user, POST /auth/login  *)
(* and the guard give the outcome they give on the store that differs      *)
(* only in having every flag True (status, detail, token and the           *)
(* principal, up to its flag), so a principal with is_active = False       *)
(* still logs in and passes the guard.                                     *)
C23_ActiveFlagIgnored ==
  LET db == activated(users_db)
  IN /\ last.op = "login" =>
          LET r == IF framework = "fastapi"
                   THEN login_handler(db, last.username, last.password, last.at)
                   ELSE flask_login_handler(db, last.username, last.password, last.at)
          IN /\ last.status = r.status
             /\ last.detail = r.detail
             /\ last.token = r.token
             /\ activated(last.user) = r.user
             /\ activated(authenticate_user(users_db, last.username, last.password))
                  = authenticate_user(db, last.username, last.password)
     /\ last.op = "me" =>
          LET g == guard(last.header, db, last.at)
          IN /\ last.guard = g.guard
             /\ last.status = g.status
             /\ last.detail = g.detail
             /\ activated(last.user) = g.user

(* A principal whose is_active is False logged in, presented the token     *)
(* and passed the guard.                                                   *)
C23_Witness ==
  /\ last.op = "me"
  /\ last.guard = "AUTHENTICATED"
  /\ last.user[1].is_active = FALSE
  /\ LastToken.exp # None
  /\ LastToken.exp[1] >= LOGIN_EXPIRE_MINUTES

(* C24: over any sequence of create and delete requests, the id given to   *)
(* a newly created planet is different from the id of every planet that    *)
(* was ever stored before, planets already deleted included: an id is      *)
(* never given out again.                                                  *)
C24_Original ==
  [][Len(planets_db') > Len(planets_db)
       => planets_db'[Len(planets_db')].id \notin stored_ids]_vars

====
